---- MODULE Spec2Model ----
(***************************************************************************)
(* RestaurantGrader: the scan flow of the single-page frontend             *)
(* (pages/Index.tsx, components/ScanProgress.tsx, services/api.ts), the    *)
(* scan document the backend keeps for it, and the website-only analyze    *)
(* endpoint.                                                               *)
(*                                                                         *)
(* Granularity.  JavaScript runs one task at a time, so a handler, the     *)
(* render React commits for its state updates and the effects of that      *)
(* render are one step.  An await splits a handler in two steps joined by  *)
(* a request in flight.                                                    *)
(***************************************************************************)
EXTENDS Integers, Sequences, FiniteSets, Bags, TLC

\* ---------------------------------------------------------------- bounds
MaxScans == 2            \* scan documents the backend accepts
MaxInFlight == 2         \* getScan requests a timer tick may add to
MaxCreateInFlight == 2   \* createScan requests in flight at once
NumAnalyzers == 1        \* analyzer steps the orchestrator takes per scan
MaxDomainLen == 3        \* characters of a submitted host name
MaxTasks == 2            \* callers using one browser manager at a time
MaxAnalyzeInFlight == 1  \* analyzeWebsite requests in flight at a time
MaxScore == 100          \* largest score given to ScoreCircle
MaxTicks == 64           \* timer ticks followed for one ScoreCircle
MaxFieldLen == 3         \* characters typed into a field of SearchForm
MaxPages == 3            \* pages one browser manager creates in its life

\* ------------------------------------------------------------- constants
Null == 0                \* null scanId / null interval ref
NoScore == -1            \* overall_score absent from a scan document

ScoreSet == {0, 42}
GradeOf(s) == IF s >= 40 THEN "D" ELSE "F"

Terminal == {"completed", "failed"}
Instances == 1..MaxScans
ScanIds == 1..MaxScans

\* scanSteps: the ids of the five steps, in order
scanSteps == <<"discover", "website", "google", "reviews", "ordering">>

\* mockResults: overall score and the four category scores (issues and
\* opportunities are fixed lists, carried as one tag)
mockResults ==
  [overall |-> 68, website |-> 72, google |-> 85, reviews |-> 61,
   ordering |-> 45, insights |-> "mock"]

VARIABLES
  \* Index page state
  appState, scanId, scanError, results, realOverallScore, isCreatingScan,
  \* number of createScan requests in flight
  createReqs,
  \* quick website check: its results, its busy flag and the number of
  \* analyzeWebsite requests in flight
  websiteResults, isAnalyzingWebsite, analyzeReqs,
  \* ScanProgress: the mounted instance and its React state
  mountedInst, instCount, progress, status, currentScan, currentStep,
  completedSteps,
  \* ScanProgress refs, per instance (a closure of an unmounted instance
  \* still holds that instance's refs)
  hasCompletedRef, pollingIntervalRef,
  \* live setInterval timers, getScan requests in flight (bag)
  intervals, getReqs,
  \* backend: the scans collection
  scans,
  \* observation of the run (not program state)
  onCompleteCalls, sawCompleted, sawFailed, guardedCompletion,
  completedScan, polled, threw,
  \* observation: how often the confirmation screen was entered (counted
  \* up to MaxScans)
  visits,
  \* website-only analyze endpoint: one request being served
  aUrl, aStage, aHttp, aData,
  \* the scan record of that request
  aScan,
  \* browser manager: where it is in its life, its three handles
  \* (_playwright, _browser, _context) and whether each resource is alive
  mstate, handle, alive,
  \* the pages it created, _active_pages, what each caller is doing and
  \* the page it holds, pages handed out by create_page and not yet closed
  \* by their caller
  pageState, active_pages, tpc, tpage, manualOpen,
  \* observation: the last operation and how it ended, the closes that
  \* raised during close(), the orphan warning of close()
  bLast, closeErrors, warned,
  \* api client: the call being made, the answer fetch got and how the
  \* call ended
  apiOp, apiResp, apiOut,
  \* ScoreCircle: its score prop (NoScore while not mounted), the effect's
  \* accumulator current (in units of 1/steps), the number shown, whether
  \* the interval timer is set, and how often it has fired
  score, current, displayScore, timer, ticks,
  \* SearchForm: its mode and its three fields; observation: the last
  \* submit and the callback it made
  mode, name, city, websiteUrl, fLast

idxVars == <<appState, scanId, scanError, results, realOverallScore,
             isCreatingScan, createReqs, websiteResults,
             isAnalyzingWebsite, analyzeReqs>>
spVars == <<mountedInst, instCount, progress, status, currentScan,
            currentStep, completedSteps, hasCompletedRef,
            pollingIntervalRef, intervals, getReqs>>
obsVars == <<onCompleteCalls, sawCompleted, sawFailed, guardedCompletion,
             completedScan, polled, threw, visits>>
scanVars == <<idxVars, spVars, scans, obsVars>>
analyzeVars == <<aUrl, aStage, aHttp, aData, aScan>>
browserVars == <<mstate, handle, alive, pageState, active_pages, tpc, tpage,
                 manualOpen, bLast, closeErrors, warned>>
backendVars == <<analyzeVars, browserVars>>
apiVars == <<apiOp, apiResp, apiOut>>
circleVars == <<score, current, displayScore, timer, ticks>>
formVars == <<mode, name, city, websiteUrl, fLast>>
componentVars == <<apiVars, circleVars, formVars>>
outsideVars == <<backendVars, componentVars>>
vars == <<scanVars, analyzeVars, browserVars, componentVars>>

\* ------------------------------------------------------- scan documents
NoDoc ==
  [status |-> "none", analyzersRun |-> 0, overall_score |-> NoScore,
   letter_grade |-> "", results |-> [overall_score |-> NoScore,
   letter_grade |-> ""], error_message |-> ""]

\* websiteResults before any website analysis has answered (null)
NoWebsiteResults == [url |-> "", website_score |-> NoScore]

\* the part of a scan document the frontend reads (ScanResponse), before
\* any response has arrived
NoBody == [status |-> "", overall_score |-> NoScore]

\* ------------------------------------------------------------ the world
\* One record holding every variable of the scan flow, so that a handler
\* is a function from world to world.
World ==
  [appState |-> appState, scanId |-> scanId, scanError |-> scanError,
   results |-> results, realOverallScore |-> realOverallScore,
   isCreatingScan |-> isCreatingScan, createReqs |-> createReqs,
   mountedInst |-> mountedInst, instCount |-> instCount,
   progress |-> progress, status |-> status, currentScan |-> currentScan,
   currentStep |-> currentStep, completedSteps |-> completedSteps,
   hasCompletedRef |-> hasCompletedRef,
   pollingIntervalRef |-> pollingIntervalRef,
   intervals |-> intervals, getReqs |-> getReqs,
   onCompleteCalls |-> onCompleteCalls, sawCompleted |-> sawCompleted,
   sawFailed |-> sawFailed, guardedCompletion |-> guardedCompletion,
   completedScan |-> completedScan, polled |-> {}, threw |-> Null,
   websiteResults |-> websiteResults,
   isAnalyzingWebsite |-> isAnalyzingWebsite, analyzeReqs |-> analyzeReqs,
   visits |-> visits]

Commit(w) ==
  /\ appState' = w.appState
  /\ scanId' = w.scanId
  /\ scanError' = w.scanError
  /\ results' = w.results
  /\ realOverallScore' = w.realOverallScore
  /\ isCreatingScan' = w.isCreatingScan
  /\ createReqs' = w.createReqs
  /\ mountedInst' = w.mountedInst
  /\ instCount' = w.instCount
  /\ progress' = w.progress
  /\ status' = w.status
  /\ currentScan' = w.currentScan
  /\ currentStep' = w.currentStep
  /\ completedSteps' = w.completedSteps
  /\ hasCompletedRef' = w.hasCompletedRef
  /\ pollingIntervalRef' = w.pollingIntervalRef
  /\ intervals' = w.intervals
  /\ getReqs' = w.getReqs
  /\ onCompleteCalls' = w.onCompleteCalls
  /\ sawCompleted' = w.sawCompleted
  /\ sawFailed' = w.sawFailed
  /\ guardedCompletion' = w.guardedCompletion
  /\ completedScan' = w.completedScan
  /\ polled' = w.polled
  /\ threw' = w.threw
  /\ websiteResults' = w.websiteResults
  /\ isAnalyzingWebsite' = w.isAnalyzingWebsite
  /\ analyzeReqs' = w.analyzeReqs
  /\ visits' = w.visits

\* the Index state a render of Index depends on
IndexState(w) ==
  <<w.appState, w.scanId, w.scanError, w.results, w.realOverallScore,
    w.isCreatingScan, w.websiteResults, w.isAnalyzingWebsite>>


\* ------------------------------------------------------------ api client
\* api.ts: a non-OK response throws Error(error.detail || <default>)
apiErrorMessage(detail, default) == IF detail # "" THEN detail ELSE default

\* the detail field of a non-OK response body: absent, or the server's text
ErrorDetails == {"", "Internal server error"}

\* the status of document sid; the step that inserts a document is the
\* step that hands its id to the frontend, so an id without a document yet
\* is a document just inserted
StatusNow(sid) ==
  IF scans[sid].status = "none" THEN "pending" ELSE scans[sid].status

\* api.getScan: the GET leaves the browser.  The request remembers the
\* status the document had when it left (since); the server reads the
\* document at some moment before the response arrives
getScan(w, i, sid) ==
  [w EXCEPT
     !.getReqs = @ (+) SetToBag({[scan |-> sid, inst |-> i,
                                   since |-> StatusNow(sid)]}),
     !.polled = @ \cup {i}]

\* ---------------------------------------------------------- ScanProgress
FreshIntervalId(ivs) ==
  CHOOSE k \in 1..(Cardinality(ivs) + 1) : \A t \in ivs : t.id # k

clearInterval_WrongHandle(w, id) == w

clearInterval(w, id) == [w EXCEPT !.intervals = {t \in @ : t.id # id}]

\* if (pollingIntervalRef.current) { clearInterval(...); ...current = null }
stopPolling(w, i) ==
  IF w.pollingIntervalRef[i] # Null
  THEN [clearInterval(w, w.pollingIntervalRef[i])
          EXCEPT !.pollingIntervalRef[i] = Null]
  ELSE w

effectCleanup_Missing(w) == w

\* the cleanup function the polling effect returns
effectCleanup(w) ==
  LET i == w.mountedInst IN
  IF w.pollingIntervalRef[i] # Null
  THEN [clearInterval(w, w.pollingIntervalRef[i])
          EXCEPT !.pollingIntervalRef[i] = Null]
  ELSE w

\* the guard at the top of the polling effect
effectSkips(w) == w.scanId = Null \/ w.hasCompletedRef[w.mountedInst]

\* the body of the polling effect: poll at once, then start the interval,
\* whose callback closes over the status of this render
effectRun(w) ==
  LET i == w.mountedInst IN
  IF effectSkips(w) THEN w
  ELSE LET w1 == getScan(w, i, w.scanId)
           id == FreshIntervalId(w1.intervals)
       IN [w1 EXCEPT
             !.intervals = @ \cup {[id |-> id, inst |-> i,
                                    status |-> w.status,
                                    scanId |-> w.scanId]},
             !.pollingIntervalRef[i] = id]

\* scan.overall_score || 0
Overall(scan) ==
  IF scan.overall_score = NoScore \/ scan.overall_score = 0
  THEN 0 ELSE scan.overall_score

handleScanComplete_KeepsMock(w, data) ==
  [w EXCEPT !.realOverallScore = data.overall,
            !.results = mockResults,
            !.appState = "results"]

\* Index.handleScanComplete
handleScanComplete(w, data) ==
  [w EXCEPT !.realOverallScore = data.overall,
            !.results = [mockResults EXCEPT !.overall = data.overall],
            !.appState = "results"]

progressFor_HalfwayWhenPending(st) ==
  CASE st = "pending" -> 50
    [] st = "in_progress" -> 50
    [] st = "completed" -> 100
    [] OTHER -> 0

\* progress shown for a status
progressFor(st) ==
  CASE st = "pending" -> 10
    [] st = "in_progress" -> 50
    [] st = "completed" -> 100
    [] OTHER -> 0

mayComplete_Unguarded(w, i) == TRUE

\* if (!hasCompletedRef.current)
mayComplete(w, i) == ~w.hasCompletedRef[i]

\* pollScan after api.getScan resolved with scan m.body.  State setters of
\* an unmounted instance do nothing; its refs and its onComplete still work.
pollScanOk(w, m) ==
  LET i == m.inst
      scan == m.body
      live == w.mountedInst = i
      w1 == IF live
            THEN [w EXCEPT !.currentScan = scan, !.status = scan.status]
            ELSE w
      setProgress(x) ==
        IF live THEN [x EXCEPT !.progress = progressFor(scan.status)] ELSE x
  IN CASE scan.status = "pending" -> setProgress(w1)
       [] scan.status = "in_progress" -> setProgress(w1)
       [] scan.status = "completed" ->
            LET w2 == [stopPolling(setProgress(w1), i)
                         EXCEPT !.sawCompleted[i] = TRUE]
            IN IF mayComplete(w2, i)
               THEN handleScanComplete(
                      [w2 EXCEPT !.hasCompletedRef[i] = TRUE,
                                 !.onCompleteCalls[i] = @ + 1,
                                 !.completedScan = [scan |-> m.scan,
                                                    body |-> scan]],
                      [overall |-> Overall(scan), scanData |-> scan])
               ELSE [w2 EXCEPT !.guardedCompletion[i] = TRUE]
       [] scan.status = "failed" ->
            [stopPolling(setProgress(w1), i) EXCEPT !.sawFailed[i] = TRUE]
       [] OTHER -> w1

pollScanError_StopsPolling(w, m) ==
  [stopPolling(w, m.inst) EXCEPT !.threw = m.inst]

\* pollScan after api.getScan threw: logged, nothing else
pollScanError(w, m) == [w EXCEPT !.threw = m.inst]

\* the step-animation effect, run until it changes nothing
RECURSIVE animateSteps(_)
animateSteps(w) ==
  LET p == w.progress
      c == w.currentStep
      to(n) == animateSteps([w EXCEPT !.completedSteps = SubSeq(scanSteps, 1, n),
                                      !.currentStep = n])
  IN IF p >= 20 /\ c < 1 THEN to(1)
     ELSE IF p >= 40 /\ c < 2 THEN to(2)
     ELSE IF p >= 60 /\ c < 3 THEN to(3)
     ELSE IF p >= 80 /\ c < 4 THEN to(4)
     ELSE IF p >= 100 /\ c < 5 THEN to(5)
     ELSE w

\* ------------------------------------------------------------- rendering
\* Index renders <ScanProgress> iff appState === "scanning" && scanId
ShowsScan(w) == w.appState = "scanning" /\ w.scanId # Null

\* a new ScanProgress instance: useState/useRef initial values, then the
\* effects; under React Strict Mode the effects run, are cleaned up and run
\* again
mount(w, strict) ==
  LET i == w.instCount + 1
      w1 == [w EXCEPT !.instCount = i, !.mountedInst = i,
                      !.progress = 0, !.status = "pending",
                      !.currentScan = NoBody, !.currentStep = 0,
                      !.completedSteps = <<>>,
                      !.hasCompletedRef[i] = FALSE,
                      !.pollingIntervalRef[i] = Null]
      w2 == effectRun(w1)
  IN animateSteps(IF strict THEN effectRun(effectCleanup(w2)) ELSE w2)

unmount(w) ==
  [effectCleanup(w) EXCEPT !.mountedInst = Null,
                           !.progress = 0, !.status = "pending",
                           !.currentScan = NoBody, !.currentStep = 0,
                           !.completedSteps = <<>>]

\* the dependencies [scanId, status, onComplete] of the polling effect:
\* onComplete is a new function on every render of Index
depsChanged(w0, w1) ==
  IndexState(w0) # IndexState(w1) \/ w0.status # w1.status

\* the render React commits after a handler took the world from w0 to w1
Render(w0, w1, strict) ==
  LET was == w0.mountedInst # Null
      will == ShowsScan(w1)
  IN CASE was /\ ~will -> unmount(w1)
       [] ~was /\ will -> mount(w1, strict)
       [] was /\ will ->
            animateSteps(IF depsChanged(w0, w1)
                         THEN effectRun(effectCleanup(w1))
                         ELSE w1)
       [] OTHER -> w1


\* ------------------------------------------------------------ api.ts
\* the three calls of the client and the default message of each
ApiOps == {"createScan", "getScan", "analyzeWebsite"}

defaultMessage(op) ==
  CASE op = "createScan" -> "Failed to create scan"
    [] op = "getScan" -> "Failed to fetch scan"
    [] OTHER -> "Failed to analyze website"

\* the detail member of a JSON object: absent, a string, or a list of
\* validation errors (objects)
NoDetail == [type |-> "absent", text |-> ""]
DetailTexts == {"", "Invalid URL", "Scan not found", "Internal server error"}
Details ==
  {NoDetail, [type |-> "list", text |-> ""]}
    \cup {[type |-> "string", text |-> t] : t \in DetailTexts}

\* a response body: text that is not JSON, the JSON value null, a JSON
\* string or number, or a JSON object with or without detail
Bodies ==
  {[kind |-> k, detail |-> NoDetail] : k \in {"text", "null", "scalar"}}
    \cup {[kind |-> "object", detail |-> d] : d \in Details}

\* what fetch() gives: a rejection (no response at all), or a response with
\* its ok flag and its body
Responses ==
  {[arrived |-> FALSE, ok |-> FALSE, body |-> [kind |-> "text",
                                                detail |-> NoDetail]]}
    \cup {[arrived |-> TRUE, ok |-> o, body |-> b] :
            o \in BOOLEAN, b \in Bodies}

NoResponse == [arrived |-> FALSE, ok |-> FALSE,
               body |-> [kind |-> "none", detail |-> NoDetail]]
NoOutcome == [kind |-> "none", body |-> [kind |-> "none", detail |-> NoDetail],
              error |-> "", message |-> ""]

returned(b) == [NoOutcome EXCEPT !.kind = "returned", !.body = b]
thrown(e, m) == [NoOutcome EXCEPT !.kind = "thrown", !.error = e, !.message = m]

\* JavaScript: d || fallback, then new Error(x).message, which is String(x)
truthy(d) == d.type = "list" \/ (d.type = "string" /\ d.text # "")
toMessage(d) == IF d.type = "list" THEN "[object Object]" ELSE d.text

\* error.detail || default, where error is the parsed error body; reading
\* a member of null throws a TypeError
errorMessage(body, default) ==
  IF truthy(body.detail) THEN toMessage(body.detail) ELSE default

\* the body of each call after its fetch: response.ok is checked first;
\* a non-OK body that is not JSON is replaced by {detail: default}
apiCall(op, resp) ==
  IF ~resp.arrived THEN thrown("TypeError", "Failed to fetch")
  ELSE IF ~resp.ok
  THEN LET error == IF resp.body.kind = "text"
                    THEN [kind |-> "object",
                          detail |-> [type |-> "string",
                                      text |-> defaultMessage(op)]]
                    ELSE resp.body
       IN IF error.kind = "null"
          THEN thrown("TypeError", "Cannot read properties of null")
          ELSE thrown("Error", errorMessage(error, defaultMessage(op)))
  ELSE IF resp.body.kind = "text"
  THEN thrown("SyntaxError", "Unexpected token")
  ELSE returned(resp.body)

\* a call starts: fetch is awaited
ApiFetch ==
  \E op \in ApiOps : \E resp \in Responses :
    /\ apiOp = "none"
    /\ apiOp' = op
    /\ apiResp' = resp
    /\ apiOut' = NoOutcome
    /\ UNCHANGED <<scanVars, backendVars, circleVars, formVars>>

\* the call ends: it returns or throws
ApiSettle ==
  /\ apiOp # "none"
  /\ apiOut = NoOutcome
  /\ apiOut' = apiCall(apiOp, apiResp)
  /\ UNCHANGED <<apiOp, apiResp, scanVars, backendVars, circleVars,
                 formVars>>

NextApi ==
  \/ ApiFetch
  \/ ApiSettle

\* ------------------------------------------------------- ScoreCircle
\* const steps = 60
steps == 60

\* The accumulator is a floating-point sum of the increment score / steps.
\* It is carried exactly, in units of 1/steps; where the increment is not
\* representable (score is not a multiple of 15) the sum may lie just below
\* or just above the exact value, which err (-1, 0, 1) stands for.
Roundings(sc) == IF sc % 15 = 0 THEN {0} ELSE {-1, 0, 1}

reached_Never(cur, sc, err) == FALSE

\* current >= score
reached(cur, sc, err) ==
  cur > sc * steps \/ (cur = sc * steps /\ err >= 0)

\* Math.floor(current)
floor(cur, err) ==
  IF cur % steps = 0 /\ err < 0 THEN (cur \div steps) - 1 ELSE cur \div steps

\* ScoreCircle mounts with a score: useState(0), then the effect sets the
\* timer with current = 0
CircleMount ==
  \E sc \in 0..MaxScore :
    /\ score = NoScore
    /\ score' = sc
    /\ current' = 0
    /\ displayScore' = 0
    /\ timer' = TRUE
    /\ ticks' = 0
    /\ UNCHANGED <<scanVars, backendVars, apiVars, formVars>>

\* the setInterval callback
CircleTick ==
  \E err \in Roundings(score) :
    /\ timer
    /\ ticks < MaxTicks
    /\ current' = current + score
    /\ ticks' = ticks + 1
    /\ IF reached(current', score, err)
       THEN /\ displayScore' = score
            /\ timer' = FALSE
       ELSE /\ displayScore' = floor(current', err)
            /\ timer' = TRUE
    /\ UNCHANGED <<score, scanVars, backendVars, apiVars, formVars>>

\* ScoreCircle unmounts: the effect's cleanup clears the timer
CircleUnmount ==
  /\ score # NoScore
  /\ score' = NoScore
  /\ current' = 0
  /\ displayScore' = 0
  /\ timer' = FALSE
  /\ ticks' = 0
  /\ UNCHANGED <<scanVars, backendVars, apiVars, formVars>>

NextCircle ==
  \/ CircleMount
  \/ CircleTick
  \/ CircleUnmount

RECURSIVE SeqsUpTo(_, _)
SeqsUpTo(S, n) ==
  IF n = 0 THEN {<< >>}
  ELSE LET shorter == SeqsUpTo(S, n - 1)
       IN shorter \cup {Append(q, c) : q \in shorter, c \in S}

\* -------------------------------------------------------- SearchForm
\* what can be typed into a field: blanks and a letter
FieldChars == {" ", "a"}
Fields == SeqsUpTo(FieldChars, MaxFieldLen)

\* String.prototype.trim: white space removed from both ends
RECURSIVE trimStart(_)
trimStart(str) ==
  IF str # << >> /\ Head(str) = " " THEN trimStart(Tail(str)) ELSE str

RECURSIVE trimEnd(_)
trimEnd(str) ==
  IF str # << >> /\ str[Len(str)] = " "
  THEN trimEnd(SubSeq(str, 1, Len(str) - 1))
  ELSE str

trim_StartOnly(str) == trimStart(str)

trim(str) == trimEnd(trimStart(str))

\* Index passes onQuickWebsiteCheck to the form
onQuickWebsiteCheckGiven == TRUE

NoSubmit == [form |-> "none", called |-> "none", args |-> << >>]

\* the mode buttons
FormSetMode ==
  \E m \in {"restaurant", "website"} :
    /\ mode # m
    /\ mode' = m
    /\ fLast' = NoSubmit
    /\ UNCHANGED <<name, city, websiteUrl, scanVars, backendVars, apiVars,
                   circleVars>>

\* onChange of the field shown in the current mode
FormType ==
  \E f \in {"name", "city", "websiteUrl"} : \E v \in Fields :
    /\ (f = "websiteUrl") = (mode = "website")
    /\ name' = IF f = "name" THEN v ELSE name
    /\ city' = IF f = "city" THEN v ELSE city
    /\ websiteUrl' = IF f = "websiteUrl" THEN v ELSE websiteUrl
    /\ <<name', city', websiteUrl'>> # <<name, city, websiteUrl>>
    /\ fLast' = NoSubmit
    /\ UNCHANGED <<mode, scanVars, backendVars, apiVars, circleVars>>

\* SearchForm.handleRestaurantSubmit
handleRestaurantSubmit ==
  /\ mode = "restaurant"
  /\ fLast' = IF trim(name) # << >> /\ trim(city) # << >>
              THEN [form |-> "restaurant", called |-> "onSearch",
                    args |-> <<trim(name), trim(city)>>]
              ELSE [NoSubmit EXCEPT !.form = "restaurant"]
  /\ UNCHANGED <<mode, name, city, websiteUrl, scanVars, backendVars,
                 apiVars, circleVars>>

\* SearchForm.handleWebsiteSubmit
handleWebsiteSubmit ==
  /\ mode = "website"
  /\ fLast' = IF trim(websiteUrl) # << >> /\ onQuickWebsiteCheckGiven
              THEN [form |-> "website", called |-> "onQuickWebsiteCheck",
                    args |-> <<trim(websiteUrl)>>]
              ELSE [NoSubmit EXCEPT !.form = "website"]
  /\ UNCHANGED <<mode, name, city, websiteUrl, scanVars, backendVars,
                 apiVars, circleVars>>

NextForm ==
  \/ FormSetMode
  \/ FormType
  \/ handleRestaurantSubmit
  \/ handleWebsiteSubmit

\* ------------------------------------------------------------------ Init
Resources == {"playwright", "browser", "context"}
Tasks == 1..MaxTasks
PageIds == 1..MaxPages
NoOp == [op |-> "none", task |-> Null, outcome |-> "", error |-> "",
         page |-> Null]

NoScan == [status |-> "none", analysis |-> "none", error |-> ""]

NoUrl == [scheme |-> "", domain |-> << >>, reachable |-> FALSE]

Init ==
  /\ appState = "landing"
  /\ scanId = Null
  /\ scanError = ""
  /\ results = mockResults
  /\ realOverallScore = NoScore
  /\ isCreatingScan = FALSE
  /\ createReqs = 0
  /\ mountedInst = Null
  /\ instCount = 0
  /\ progress = 0
  /\ status = "pending"
  /\ currentScan = NoBody
  /\ currentStep = 0
  /\ completedSteps = <<>>
  /\ hasCompletedRef = [i \in Instances |-> FALSE]
  /\ pollingIntervalRef = [i \in Instances |-> Null]
  /\ intervals = {}
  /\ getReqs = EmptyBag
  /\ scans = [s \in ScanIds |-> NoDoc]
  /\ onCompleteCalls = [i \in Instances |-> 0]
  /\ sawCompleted = [i \in Instances |-> FALSE]
  /\ sawFailed = [i \in Instances |-> FALSE]
  /\ guardedCompletion = [i \in Instances |-> FALSE]
  /\ completedScan = [scan |-> Null, body |-> NoBody]
  /\ polled = {}
  /\ threw = Null
  /\ websiteResults = NoWebsiteResults
  /\ isAnalyzingWebsite = FALSE
  /\ analyzeReqs = 0
  /\ visits = 0
  /\ aUrl = NoUrl
  /\ aStage = "idle"
  /\ aHttp = 0
  /\ aData = "none"
  /\ aScan = NoScan
  /\ mstate = "new"
  /\ handle = [r \in Resources |-> FALSE]
  /\ alive = [r \in Resources |-> FALSE]
  /\ pageState = [p \in PageIds |-> "none"]
  /\ active_pages = {}
  /\ tpc = [t \in Tasks |-> "idle"]
  /\ tpage = [t \in Tasks |-> Null]
  /\ manualOpen = {}
  /\ bLast = NoOp
  /\ closeErrors = {}
  /\ warned = FALSE
  /\ apiOp = "none"
  /\ apiResp = NoResponse
  /\ apiOut = NoOutcome
  /\ score = NoScore
  /\ current = 0
  /\ displayScore = 0
  /\ timer = FALSE
  /\ ticks = 0
  /\ mode = "restaurant"
  /\ name = << >>
  /\ city = << >>
  /\ websiteUrl = << >>
  /\ fLast = NoSubmit

\* a step of the scan flow: handler result w1, then the render
\* (no handler but a mount looks at strict)
Step(w1, strict) ==
  \E a \in {w1} : \E b \in {Render(World, a, strict)} : Commit(b)

\* ------------------------------------------------------- Index handlers
\* Index.handleSearch, called by the search form on the landing screen
enterConfirmation(w) ==
  [w EXCEPT !.appState = "confirmation",
            !.visits = IF @ < MaxScans THEN @ + 1 ELSE @]

handleSearch ==
  /\ appState = "landing"
  /\ Step(enterConfirmation(World), FALSE)
  /\ UNCHANGED <<scans, outsideVars>>

\* Index.handleConfirm up to its await: the confirm button is never
\* disabled, so a second request can leave while the first is in flight
handleConfirm ==
  /\ appState = "confirmation"
  /\ createReqs < MaxCreateInFlight
  /\ Step([World EXCEPT !.isCreatingScan = TRUE,
                        !.scanError = "",
                        !.createReqs = @ + 1], FALSE)
  /\ UNCHANGED <<scans, outsideVars>>

handleConfirmResolve_ForgetsScanId(w, m) ==
  LET w1 == IF m.ok
            THEN [w EXCEPT !.appState = "scanning"]
            ELSE [w EXCEPT !.scanError = m.message]
  IN [w1 EXCEPT !.isCreatingScan = FALSE]

handleConfirmResolve_SwallowsError(w, m) ==
  LET w1 == IF m.ok
            THEN [w EXCEPT !.scanId = m.scan_id, !.appState = "scanning"]
            ELSE w
  IN [w1 EXCEPT !.isCreatingScan = FALSE]

\* Index.handleConfirm after its await: api.createScan returned m, or threw
\* an Error with message m.message
handleConfirmResolve(w, m) ==
  LET w1 == IF m.ok
            THEN [w EXCEPT !.scanId = m.scan_id, !.appState = "scanning"]
            ELSE [w EXCEPT !.scanError = m.message]
  IN [w1 EXCEPT !.isCreatingScan = FALSE]

\* Index.handleBack, reachable from the confirmation, results and
\* website-results screens
handleBack ==
  /\ appState \in {"confirmation", "results", "website-results"}
  /\ Step([World EXCEPT !.appState = "landing", !.scanError = "",
                        !.websiteResults = NoWebsiteResults], FALSE)
  /\ UNCHANGED <<scans, outsideVars>>

\* ------------------------------------------------- quick website check
\* the bodies POST /api/website/analyze answers with (url, website_score)
WebsiteResponses == {[url |-> "site", website_score |-> s] : s \in ScoreSet}

\* the detail of a non-OK answer: absent, or the server's text (a 422)
WebsiteErrorDetails == {"", "Invalid URL"}

\* Index.handleQuickWebsiteCheck up to its await, called by the search
\* form on the landing screen
handleQuickWebsiteCheck ==
  /\ appState = "landing"
  /\ analyzeReqs < MaxAnalyzeInFlight
  /\ Step([World EXCEPT !.isAnalyzingWebsite = TRUE,
                        !.scanError = "",
                        !.appState = "website-analyzing",
                        !.analyzeReqs = @ + 1], FALSE)
  /\ UNCHANGED <<scans, outsideVars>>

handleQuickWebsiteCheckResolve_SkipsSetResults(w, m) ==
  LET w1 == IF m.ok
            THEN [w EXCEPT !.appState = "website-results"]
            ELSE [w EXCEPT !.scanError = m.message, !.appState = "landing"]
  IN [w1 EXCEPT !.isAnalyzingWebsite = FALSE]

\* Index.handleQuickWebsiteCheck after its await: api.analyzeWebsite
\* returned m.body, or threw an Error with message m.message
handleQuickWebsiteCheckResolve(w, m) ==
  LET w1 == IF m.ok
            THEN [w EXCEPT !.websiteResults = m.body,
                           !.appState = "website-results"]
            ELSE [w EXCEPT !.scanError = m.message, !.appState = "landing"]
  IN [w1 EXCEPT !.isAnalyzingWebsite = FALSE]

\* POST /api/website/analyze answers 200 with the analysis
AnalyzeWebsiteOk ==
  \E r \in WebsiteResponses :
    /\ analyzeReqs > 0
    /\ Step(handleQuickWebsiteCheckResolve(
              [World EXCEPT !.analyzeReqs = @ - 1],
              [ok |-> TRUE, body |-> r, message |-> ""]), FALSE)
    /\ UNCHANGED <<scans, outsideVars>>

\* POST /api/website/analyze answers with a non-OK status (or not at all)
AnalyzeWebsiteFails ==
  \E d \in WebsiteErrorDetails :
    /\ analyzeReqs > 0
    /\ Step(handleQuickWebsiteCheckResolve(
              [World EXCEPT !.analyzeReqs = @ - 1],
              [ok |-> FALSE, body |-> NoWebsiteResults,
               message |-> apiErrorMessage(d, "Failed to analyze website")]),
            FALSE)
    /\ UNCHANGED <<scans, outsideVars>>

\* Index.handleUpgradeToFullScan, called from the website-results screen,
\* which is rendered only when websiteResults is set
handleUpgradeToFullScan ==
  /\ appState = "website-results"
  /\ websiteResults # NoWebsiteResults
  /\ Step(enterConfirmation(World), FALSE)
  /\ UNCHANGED <<scans, outsideVars>>

\* --------------------------------------------------- ScanProgress steps
\* the setInterval callback of the effect run that created timer t
intervalCallback(w, t) ==
  IF t.status # "completed" /\ t.status # "failed"
  THEN getScan(w, t.inst, t.scanId)
  ELSE stopPolling(w, t.inst)

IntervalTick ==
  \E t \in intervals :
    /\ BagCardinality(getReqs) < MaxInFlight
    /\ Step(intervalCallback(World, t), FALSE)
    /\ UNCHANGED <<scans, outsideVars>>

\* the statuses a document can have had between the moment request m left
\* and now: a status only moves forward (pending, in_progress, terminal)
StatusRank(st) ==
  CASE st = "pending" -> 1 [] st = "in_progress" -> 2 [] OTHER -> 3

Snapshots(m) ==
  LET now == scans[m.scan].status IN
  {st \in {"pending", "in_progress", now} :
     /\ StatusRank(m.since) <= StatusRank(st)
     /\ StatusRank(st) <= StatusRank(now)}

\* GET /api/scans/{id} answers with the document as the server read it, and
\* api.getScan resolves with it
GetScanResolve ==
  \E m \in BagToSet(getReqs) : \E st \in Snapshots(m) :
    /\ Step(pollScanOk(
              [World EXCEPT !.getReqs = @ (-) SetToBag({m})],
              [scan |-> m.scan, inst |-> m.inst,
               body |-> [status |-> st,
                         overall_score |->
                           IF st = scans[m.scan].status
                           THEN scans[m.scan].overall_score
                           ELSE NoScore]]), FALSE)
    /\ UNCHANGED <<scans, outsideVars>>

\* api.getScan throws: network error or non-OK response
GetScanRejects ==
  \E m \in BagToSet(getReqs) :
    /\ Step(pollScanError([World EXCEPT !.getReqs = @ (-) SetToBag({m})], m), FALSE)
    /\ UNCHANGED <<scans, outsideVars>>

\* ---------------------------------------------------------------- backend
ScanCount == Cardinality({s \in ScanIds : scans[s].status # "none"})

\* POST /api/scans/ creates a document with status pending and answers
\* with its scan_id; the frontend cannot see the document before it has the
\* id, so the insert and the delivery of the answer are one step
CreateScanOk ==
  \E strict \in BOOLEAN :
  /\ createReqs > 0
  /\ ScanCount < MaxScans
  /\ LET id == ScanCount + 1 IN
     /\ scans' = [scans EXCEPT ![id] = [NoDoc EXCEPT !.status = "pending"]]
     /\ Step(handleConfirmResolve(
               [World EXCEPT !.createReqs = @ - 1],
               [ok |-> TRUE, scan_id |-> id, message |-> ""]), strict)
  /\ UNCHANGED outsideVars

\* POST /api/scans/ answered with a non-OK status (or not at all)
CreateScanFails ==
  \E d \in ErrorDetails :
    /\ createReqs > 0
    /\ Step(handleConfirmResolve(
              [World EXCEPT !.createReqs = @ - 1],
              [ok |-> FALSE, scan_id |-> Null,
               message |-> apiErrorMessage(d, "Failed to create scan")]), FALSE)
    /\ UNCHANGED <<scans, outsideVars>>

\* update_scan(scan_id, fields) on the scans collection
update_scan(id, doc) ==
  /\ scans' = [scans EXCEPT ![id] = doc]
  /\ polled' = {}
  /\ threw' = Null
  /\ UNCHANGED <<idxVars, spVars, onCompleteCalls, sawCompleted, sawFailed,
                 guardedCompletion, completedScan, visits, outsideVars>>

\* the orchestrator takes up a pending scan
OrchStart ==
  \E id \in ScanIds :
    /\ scans[id].status = "pending"
    /\ update_scan(id, [scans[id] EXCEPT !.status = "in_progress"])

\* one analyzer of the scan returns its data bag
OrchAnalyzer ==
  \E id \in ScanIds :
    /\ scans[id].status = "in_progress"
    /\ scans[id].analyzersRun < NumAnalyzers
    /\ update_scan(id, [scans[id] EXCEPT !.analyzersRun = @ + 1])

\* one analyzer of the scan raises: the scan is marked failed
OrchAnalyzerFails ==
  \E id \in ScanIds :
    /\ scans[id].status = "in_progress"
    /\ scans[id].analyzersRun < NumAnalyzers
    /\ update_scan(id, [scans[id] EXCEPT !.analyzersRun = @ + 1,
                                         !.status = "failed",
                                         !.error_message = "analysis failed"])

\* the completing update: overall_score and letter_grade at the top level
\* and the full scores under results
completingUpdate_NestedOnly(doc, overall_scores) ==
  [doc EXCEPT !.status = "completed", !.results = overall_scores]

completingUpdate(doc, overall_scores) ==
  [doc EXCEPT !.status = "completed",
              !.overall_score = overall_scores.overall_score,
              !.letter_grade = overall_scores.letter_grade,
              !.results = overall_scores]

\* the orchestrator finishes a scan it has started, after its analyzers
analysisDone_FromPending(doc) ==
  doc.status \in {"pending", "in_progress"}

analysisDone(doc) ==
  doc.status = "in_progress" /\ doc.analyzersRun = NumAnalyzers

OrchComplete ==
  \E id \in ScanIds, s \in ScoreSet :
    /\ analysisDone(scans[id])
    /\ update_scan(id, completingUpdate(scans[id],
         [overall_score |-> s, letter_grade |-> GradeOf(s)]))

\* ------------------------------------------- POST /api/website/analyze
\* A submitted URL is its scheme ("" when the text has no scheme://), its
\* host as a sequence of characters, and whether the host answers.
Schemes == {"", "http", "https", "ftp"}
AlNum == {"a", "1"}
DomainChars == AlNum \cup {"-", ".", "_"}

Domains == SeqsUpTo(DomainChars, MaxDomainLen)

\* the labels of a host, split at the dots
RECURSIVE labels(_)
labels(d) ==
  IF \A k \in 1..Len(d) : d[k] # "." THEN <<d>>
  ELSE LET k == CHOOSE j \in 1..Len(d) :
                  d[j] = "." /\ \A h \in 1..(j - 1) : d[h] # "."
       IN <<SubSeq(d, 1, k - 1)>> \o labels(SubSeq(d, k + 1, Len(d)))

\* [a-zA-Z0-9]([a-zA-Z0-9-]{0,61}[a-zA-Z0-9])?
labelMatches(l) ==
  /\ Len(l) \in 1..63
  /\ l[1] \in AlNum
  /\ l[Len(l)] \in AlNum
  /\ \A k \in 1..Len(l) : l[k] \in AlNum \cup {"-"}

\* ^label(\.label)*$
domainMatches(d) ==
  LET ls == labels(d) IN \A k \in 1..Len(ls) : labelMatches(ls[k])

\* "Normalizes URLs by adding https:// if missing"
normalizeUrl(u) == IF u.scheme = "" THEN [u EXCEPT !.scheme = "https"] ELSE u

\* the validator of routes/website.py: "" when the URL passes, else the
\* message of the ValueError
validateUrl_NoDomainCheck(u) ==
  LET parsed == normalizeUrl(u) IN
    IF parsed.scheme = "" \/ parsed.domain = << >> THEN "Invalid URL format"
    ELSE IF parsed.scheme \notin {"http", "https"}
         THEN "URL must use http or https protocol"
    ELSE ""

validateUrl(u) ==
  LET parsed == normalizeUrl(u) IN
    IF parsed.scheme = "" \/ parsed.domain = << >> THEN "Invalid URL format"
    ELSE IF parsed.scheme \notin {"http", "https"}
         THEN "URL must use http or https protocol"
    ELSE IF ~domainMatches(parsed.domain) THEN "Invalid domain format"
    ELSE ""

respond(code, data, scan) ==
  /\ aStage' = "responded"
  /\ aHttp' = code
  /\ aData' = data
  /\ aScan' = scan
  /\ UNCHANGED <<aUrl, scanVars, browserVars, componentVars>>

\* a client posts {url}
AnalyzeSubmit ==
  \E sc \in Schemes, d \in Domains, r \in BOOLEAN :
    /\ aStage = "idle"
    /\ aUrl' = [scheme |-> sc, domain |-> d, reachable |-> r]
    /\ aStage' = "received"
    /\ UNCHANGED <<aHttp, aData, aScan, scanVars, browserVars, componentVars>>

\* the request model validates the URL; a ValueError is answered with 422
AnalyzeValidate ==
  /\ aStage = "received"
  /\ IF validateUrl(aUrl) # "" THEN respond(422, "none", aScan)
     ELSE /\ aStage' = "validated"
          /\ UNCHANGED <<aUrl, aHttp, aData, aScan, scanVars, browserVars, componentVars>>

\* check_website_availability() before the analysis; the scan record of
\* the analysis is written when the analysis starts
AnalyzeCheckAvailability ==
  /\ aStage = "validated"
  /\ IF ~aUrl.reachable THEN respond(422, "none", aScan)
     ELSE /\ aStage' = "analyzing"
          /\ aScan' = [NoScan EXCEPT !.status = "in_progress"]
          /\ UNCHANGED <<aUrl, aHttp, aData, scanVars, browserVars, componentVars>>

finishScan_CompletesEmpty(scan, outcome) ==
  CASE outcome = "timeout" ->
         [status |-> "failed", analysis |-> outcome,
          error |-> "Website analysis timed out"]
    [] OTHER -> [status |-> "completed", analysis |-> outcome, error |-> ""]

\* the update of the scan record when the analysis has ended: empty
\* results are raised as an exception, and an exception marks the scan
\* failed with its message
finishScan(scan, outcome) ==
  CASE outcome = "data" ->
         [status |-> "completed", analysis |-> outcome, error |-> ""]
    [] outcome = "empty" ->
         [status |-> "failed", analysis |-> outcome,
          error |-> "Website analysis returned no data"]
    [] OTHER ->
         [status |-> "failed", analysis |-> outcome,
          error |-> "Website analysis timed out"]

\* the analysis returns data, returns nothing (raised as "Website analysis
\* returned no data") or times out after 30 seconds
AnalyzeFinish ==
  \E outcome \in {"data", "empty", "timeout"} :
    /\ aStage = "analyzing"
    /\ IF outcome = "data"
       THEN respond(200, "full", finishScan(aScan, outcome))
       ELSE respond(500, "none", finishScan(aScan, outcome))

NextAnalyze ==
  \/ AnalyzeSubmit
  \/ AnalyzeValidate
  \/ AnalyzeCheckAvailability
  \/ AnalyzeFinish

SpecAnalyze == Init /\ [][NextAnalyze]_vars

\* ------------------------------------------------------- BrowserManager
\* One BrowserManager used as "async with BrowserManager() as manager":
\* __aenter__, then callers that use get_page, create_page and
\* analyze_website (interleaved at their awaits), then close() from
\* __aexit__ once the body has ended.
Quiet == \A t \in Tasks : tpc[t] = "idle"
Usable == mstate \in {"new", "open", "closed"}
FreshPages == {p \in PageIds : pageState[p] = "none"}
PageErr(p) == <<"page", p>>
ResourceErr(r) == <<r, 0>>

\* str(e) and f"Timeout: {str(e)}" as the words of analysis["error"]
NoError == << >>
errorText(e) == <<e>>
timeoutText(e) == <<"Timeout:", e>>

track_Untracked(ap, p) == ap

\* self._active_pages.add(page)
track(ap, p) == ap \cup {p}

acquire_TracksBeforeCreated(ctx, created, ps, ap, p) ==
  IF ~ctx
  THEN [raised |-> TRUE, error |-> "Browser context not initialized",
        pageState |-> ps, active |-> ap, page |-> Null]
  ELSE IF ~created
  THEN [raised |-> TRUE, error |-> "new_page failed",
        pageState |-> ps, active |-> track(ap, p), page |-> Null]
  ELSE [raised |-> FALSE, error |-> "",
        pageState |-> [ps EXCEPT ![p] = "open"], active |-> track(ap, p),
        page |-> p]

\* the head of get_page and of create_page: the context check,
\* self._context.new_page() (created: it returned) and the tracking
acquire(ctx, created, ps, ap, p) ==
  IF ~ctx
  THEN [raised |-> TRUE, error |-> "Browser context not initialized",
        pageState |-> ps, active |-> ap, page |-> Null]
  ELSE IF ~created
  THEN [raised |-> TRUE, error |-> "new_page failed",
        pageState |-> ps, active |-> ap, page |-> Null]
  ELSE [raised |-> FALSE, error |-> "",
        pageState |-> [ps EXCEPT ![p] = "open"], active |-> track(ap, p),
        page |-> p]

\* "if page: try: await page.close(); self._active_pages.discard(page)
\* except: log": a close that raises skips the discard
closeAndDiscard(ps, ap, p, closes) ==
  IF closes
  THEN [pageState |-> [ps EXCEPT ![p] = "closed"], active |-> ap \ {p}]
  ELSE [pageState |-> ps, active |-> ap]

closeResource_KeepsHandleOnError(h, a, r, closes) ==
  IF closes THEN [handle |-> [h EXCEPT ![r] = FALSE],
                  alive |-> [a EXCEPT ![r] = FALSE]]
  ELSE [handle |-> h, alive |-> a]

\* "try: await resource.close() except: log finally: self._x = None"
closeResource(h, a, r, closes) ==
  [handle |-> [h EXCEPT ![r] = FALSE],
   alive |-> IF closes THEN [a EXCEPT ![r] = FALSE] ELSE a]

\* __aenter__: playwright, browser, context in this order; a failure
\* after k of them calls close() and re-raises
AEnter ==
  \E k \in 0..3 :
    LET order == <<"playwright", "browser", "context">>
        got == {order[i] : i \in 1..k}
    IN /\ mstate = "new"
       /\ Quiet
       /\ handle' = [r \in Resources |-> r \in got]
       /\ alive' = [r \in Resources |-> r \in got]
       /\ mstate' = IF k = 3 THEN "open" ELSE "closing_pages"
       /\ bLast' = [NoOp EXCEPT !.op = "__aenter__",
                                !.outcome = IF k = 3 THEN "ok" ELSE "raised"]
       /\ closeErrors' = {}
       /\ warned' = FALSE
       /\ UNCHANGED <<pageState, active_pages, tpc, tpage, manualOpen,
                      scanVars, analyzeVars, componentVars>>

\* "async with manager.get_page() as page": up to the yield
GetPageEnter ==
  \E t \in Tasks, created \in BOOLEAN :
    /\ Usable
    /\ tpc[t] = "idle"
    /\ created => FreshPages # {}
    /\ LET p == IF FreshPages = {} THEN 1
                ELSE CHOOSE q \in FreshPages : \A o \in FreshPages : q <= o
           a == acquire(handle["context"], created, pageState,
                        active_pages, p)
       IN /\ pageState' = a.pageState
          /\ active_pages' = a.active
          /\ tpc' = IF a.raised THEN tpc ELSE [tpc EXCEPT ![t] = "in_scope"]
          /\ tpage' = IF a.raised THEN tpage ELSE [tpage EXCEPT ![t] = a.page]
          /\ bLast' = [op |-> "get_page", task |-> t,
                       outcome |-> IF a.raised THEN "raised" ELSE "yielded",
                       error |-> IF a.raised THEN errorText(a.error)
                                 ELSE NoError,
                       page |-> a.page]
    /\ UNCHANGED <<mstate, handle, alive, manualOpen, closeErrors, warned,
                   scanVars, analyzeVars, componentVars>>

\* the scope is left: the body ended, raised or timed out; the finally
\* closes the page, and the body's exception goes on to the caller
GetPageExit ==
  \E t \in Tasks, how \in {"ok", "raised", "timeout"}, closes \in BOOLEAN :
    /\ tpc[t] = "in_scope"
    /\ LET c == closeAndDiscard(pageState, active_pages, tpage[t], closes)
       IN /\ pageState' = c.pageState
          /\ active_pages' = c.active
    /\ tpc' = [tpc EXCEPT ![t] = "idle"]
    /\ tpage' = [tpage EXCEPT ![t] = Null]
    /\ bLast' = [op |-> "get_page_exit", task |-> t, outcome |-> how,
                 error |-> IF closes THEN NoError
                           ELSE errorText("Error closing page"),
                 page |-> tpage[t]]
    /\ UNCHANGED <<mstate, handle, alive, manualOpen, closeErrors, warned,
                   scanVars, analyzeVars, componentVars>>

\* page = await manager.create_page(): the caller owns the page
CreatePage ==
  \E t \in Tasks, created \in BOOLEAN :
    /\ Usable
    /\ tpc[t] = "idle"
    /\ created => FreshPages # {}
    /\ LET p == IF FreshPages = {} THEN 1
                ELSE CHOOSE q \in FreshPages : \A o \in FreshPages : q <= o
           a == acquire(handle["context"], created, pageState,
                        active_pages, p)
       IN /\ pageState' = a.pageState
          /\ active_pages' = a.active
          /\ manualOpen' = IF a.raised THEN manualOpen
                           ELSE manualOpen \cup {a.page}
          /\ bLast' = [op |-> "create_page", task |-> t,
                       outcome |-> IF a.raised THEN "raised" ELSE "returned",
                       error |-> IF a.raised THEN errorText(a.error)
                                 ELSE NoError,
                       page |-> a.page]
    /\ UNCHANGED <<mstate, handle, alive, tpc, tpage, closeErrors, warned,
                   scanVars, analyzeVars, componentVars>>

\* the caller of create_page closes its page itself: "await page.close()"
\* goes to the page, not to the manager, so _active_pages keeps the page
ManualClose ==
  \E p \in manualOpen :
    /\ pageState' = [pageState EXCEPT ![p] = "closed"]
    /\ manualOpen' = manualOpen \ {p}
    /\ bLast' = [NoOp EXCEPT !.op = "page.close", !.outcome = "ok",
                             !.page = p]
    /\ UNCHANGED <<mstate, handle, alive, active_pages, tpc, tpage,
                   closeErrors, warned, scanVars, analyzeVars, componentVars>>

\* analyze_website up to the navigation: the URL check, then create_page;
\* whatever is raised here is caught and recorded in analysis["error"]
AnalyzeWebsiteCreate ==
  \E t \in Tasks, valid \in BOOLEAN, created \in BOOLEAN :
    /\ Usable
    /\ tpc[t] = "idle"
    /\ created => FreshPages # {}
    /\ LET p == IF FreshPages = {} THEN 1
                ELSE CHOOSE q \in FreshPages : \A o \in FreshPages : q <= o
           a == acquire(handle["context"], created, pageState,
                        active_pages, p)
       IN IF ~valid
          THEN /\ bLast' = [op |-> "analyze_website", task |-> t,
                            outcome |-> "returned",
                            error |-> errorText("Invalid URL"),
                            page |-> Null]
               /\ UNCHANGED <<pageState, active_pages, tpc, tpage>>
          ELSE /\ pageState' = a.pageState
               /\ active_pages' = a.active
               /\ tpc' = IF a.raised THEN tpc
                         ELSE [tpc EXCEPT ![t] = "analyzing"]
               /\ tpage' = IF a.raised THEN tpage
                           ELSE [tpage EXCEPT ![t] = a.page]
               /\ bLast' = [op |-> "analyze_website", task |-> t,
                            outcome |-> IF a.raised THEN "returned"
                                        ELSE "navigating",
                            error |-> IF a.raised THEN errorText(a.error)
                                      ELSE NoError,
                            page |-> a.page]
    /\ UNCHANGED <<mstate, handle, alive, manualOpen, closeErrors, warned,
                   scanVars, analyzeVars, componentVars>>

\* analyze_website from page.goto on: the navigation succeeds, times out
\* (asyncio.TimeoutError) or raises; the finally closes the page; the
\* analysis is returned
AnalyzeWebsiteReturn ==
  \E t \in Tasks, nav \in {"ok", "timeout", "error"}, closes \in BOOLEAN :
    /\ tpc[t] = "analyzing"
    /\ LET c == closeAndDiscard(pageState, active_pages, tpage[t], closes)
       IN /\ pageState' = c.pageState
          /\ active_pages' = c.active
    /\ tpc' = [tpc EXCEPT ![t] = "idle"]
    /\ tpage' = [tpage EXCEPT ![t] = Null]
    /\ bLast' = [op |-> "analyze_website", task |-> t,
                 outcome |-> "returned",
                 error |-> CASE nav = "timeout" -> timeoutText("goto")
                             [] nav = "error" -> errorText("goto")
                             [] OTHER -> NoError,
                 page |-> tpage[t]]
    /\ UNCHANGED <<mstate, handle, alive, manualOpen, closeErrors, warned,
                   scanVars, analyzeVars, componentVars>>

\* __aexit__ calls close() when the body of the "async with" has ended
CloseBegin ==
  /\ mstate = "open"
  /\ Quiet
  /\ mstate' = "closing_pages"
  /\ closeErrors' = {}
  /\ warned' = FALSE
  /\ bLast' = [NoOp EXCEPT !.op = "__aexit__"]
  /\ UNCHANGED <<handle, alive, pageState, active_pages, tpc, tpage,
                 manualOpen, scanVars, analyzeVars, componentVars>>

stageAfter_BrowserBeforeContext(stage) ==
  CASE stage = "pages" -> "closing_browser"
    [] stage = "browser" -> "closing_context"
    [] stage = "context" -> "closing_playwright"
    [] OTHER -> "closed"

\* the section of close() that follows the section for stage: pages,
\* context, browser, playwright, as the method is written
stageAfter(stage) ==
  CASE stage = "pages" -> "closing_context"
    [] stage = "context" -> "closing_browser"
    [] stage = "browser" -> "closing_playwright"
    [] OTHER -> "closed"

\* close(), the pages: a warning if any is tracked, page.close() on each
\* (failed: those whose close raises), then _active_pages.clear()
ClosePages ==
  \E failed \in SUBSET active_pages :
    /\ mstate = "closing_pages"
    /\ warned' = (active_pages # {})
    /\ pageState' = [p \in PageIds |->
                       IF p \in active_pages \ failed THEN "closed"
                       ELSE pageState[p]]
    /\ active_pages' = {}
    /\ closeErrors' = closeErrors \cup {PageErr(p) : p \in failed}
    /\ mstate' = stageAfter("pages")
    /\ bLast' = [NoOp EXCEPT !.op = "close.pages"]
    /\ UNCHANGED <<handle, alive, tpc, tpage, manualOpen, scanVars,
                   analyzeVars, componentVars>>

\* close(), one of the three handles: "if self._x:" try, except, finally
closeStep(r, next) ==
  \E closes \in BOOLEAN :
    /\ mstate = "closing_" \o r
    /\ IF handle[r]
       THEN LET c == closeResource(handle, alive, r, closes)
            IN /\ handle' = c.handle
               /\ alive' = c.alive
               /\ closeErrors' = IF closes THEN closeErrors
                                 ELSE closeErrors \cup {ResourceErr(r)}
       ELSE UNCHANGED <<handle, alive, closeErrors>>
    /\ mstate' = next
    /\ bLast' = [NoOp EXCEPT !.op = "close." \o r]
    /\ UNCHANGED <<pageState, active_pages, tpc, tpage, manualOpen, warned,
                   scanVars, analyzeVars, componentVars>>

CloseContext == closeStep("context", stageAfter("context"))
CloseBrowser == closeStep("browser", stageAfter("browser"))
ClosePlaywright == closeStep("playwright", stageAfter("playwright"))

NextBrowser ==
  \/ AEnter
  \/ GetPageEnter
  \/ GetPageExit
  \/ CreatePage
  \/ ManualClose
  \/ AnalyzeWebsiteCreate
  \/ AnalyzeWebsiteReturn
  \/ CloseBegin
  \/ ClosePages
  \/ CloseContext
  \/ CloseBrowser
  \/ ClosePlaywright

SpecBrowser == Init /\ [][NextBrowser]_vars

\* the api client alone: one call from its fetch to its end
SpecApi == Init /\ [][NextApi]_vars

\* one ScoreCircle from mount to unmount
SpecCircle == Init /\ [][NextCircle]_vars

\* the search form alone
SpecForm == Init /\ [][NextForm]_vars


Next ==
  \/ handleSearch
  \/ handleConfirm
  \/ handleBack
  \/ IntervalTick
  \/ GetScanResolve
  \/ CreateScanOk
  \/ CreateScanFails
  \/ OrchStart
  \/ OrchAnalyzer
  \/ OrchAnalyzerFails
  \/ OrchComplete
  \/ GetScanRejects

Spec == Init /\ [][Next]_vars

\* the Index page with both of its flows, the full scan and the quick
\* website check, and the answers to its requests; the scans it creates
\* stay pending (what the orchestrator does to them is in Spec)
NextSite ==
  \/ handleSearch
  \/ handleConfirm
  \/ handleBack
  \/ CreateScanOk
  \/ CreateScanFails
  \/ IntervalTick
  \/ GetScanResolve
  \/ GetScanRejects
  \/ handleQuickWebsiteCheck
  \/ AnalyzeWebsiteOk
  \/ AnalyzeWebsiteFails
  \/ handleUpgradeToFullScan

SpecSite == Init /\ [][NextSite]_vars

\* the interval keeps firing, a getScan in flight is answered in the end
\* (it may throw any number of times, but not for ever), pending createScan
\* requests are answered and the orchestrator keeps running
FairSpec ==
  /\ Spec
  /\ WF_vars(IntervalTick)
  /\ SF_vars(GetScanResolve)
  /\ WF_vars(CreateScanOk \/ CreateScanFails)
  /\ WF_vars(OrchStart)
  /\ WF_vars(OrchAnalyzer \/ OrchAnalyzerFails)
  /\ WF_vars(OrchComplete)

TypeOK ==
  appState \in {"landing", "confirmation", "scanning", "results",
                "website-analyzing", "website-results"}

\* ================================================================ claims
\* C1: once a ScanProgress instance has processed a getScan response with
\* status completed, no step issues a getScan for that instance any more.
C1_NoPollAfterCompleted == \A i \in polled : ~sawCompleted[i]

\* an instance has processed completed, its interval is cleared and the
\* component is gone
C1_Witness ==
  \E i \in Instances :
    /\ sawCompleted[i]
    /\ pollingIntervalRef[i] = Null
    /\ mountedInst # i
    /\ \A t \in intervals : t.inst # i

\* C2: once an instance has processed a getScan response with status
\* failed, no step issues a getScan for that instance any more, neither a
\* timer tick nor the effect re-running for the changed status.
C2_NoPollAfterFailed == \A i \in polled : ~sawFailed[i]

\* C3: onComplete is called at most once per ScanProgress instance.
C3_OnCompleteAtMostOnce == \A i \in Instances : onCompleteCalls[i] <= 1

\* an instance got a second completed response and the guard held it back
C3_Witness ==
  \E i \in Instances : guardedCompletion[i] /\ onCompleteCalls[i] = 1

C5_NoPollAfterUnmount == \A i \in polled : i = mountedInst

\* an instance has been mounted and unmounted
C5_Witness ==
  /\ instCount >= 1
  /\ mountedInst = Null
  /\ \E i \in Instances : sawCompleted[i] /\ pollingIntervalRef[i] = Null

\* C6: whenever the app is on the scanning screen for a scan whose document
\* is completed, it reaches the results screen.
C6_CompletedScanReachesResults ==
  \A s \in ScanIds :
    (appState = "scanning" /\ scanId = s /\ scans[s].status = "completed")
      ~> (appState = "results")

\* C7: on the results screen the overall score is the overall_score of the
\* completed scan getScan returned (0 when absent or 0) and every other
\* field is the mock value.
C7_ResultsShowScanScore ==
  appState = "results" =>
    /\ completedScan.body.status = "completed"
    /\ scans[completedScan.scan].status = "completed"
    /\ completedScan.body.overall_score =
         scans[completedScan.scan].overall_score
    /\ results.overall = Overall(completedScan.body)
    /\ realOverallScore = results.overall
    /\ [results EXCEPT !.overall = mockResults.overall] = mockResults

\* the results screen shows a scan score that differs from the mock score
C7_Witness ==
  /\ appState = "results"
  /\ results.overall # mockResults.overall
  /\ results.overall = scans[completedScan.scan].overall_score

\* C8: the stored status of a scan only moves forward, pending to
\* in_progress to completed or failed, never changes once terminal, and is
\* terminal only after an analyzer has run.
StatusMoves ==
  {<<"none", "pending">>, <<"pending", "in_progress">>,
   <<"in_progress", "completed">>, <<"in_progress", "failed">>}

C8_StatusOnlyForward ==
  [][\A id \in ScanIds :
       scans'[id].status # scans[id].status =>
         /\ <<scans[id].status, scans'[id].status>> \in StatusMoves
         /\ scans'[id].status \in Terminal => scans'[id].analyzersRun >= 1]_vars

C8_Witness ==
  /\ \E id \in ScanIds : scans[id].status = "completed" /\ scans[id].analyzersRun >= 1
  /\ \E id \in ScanIds : scans[id].status = "failed" /\ scans[id].analyzersRun >= 1

\* C9: a completed scan document carries at the top level the overall_score
\* and letter_grade that its completing update wrote under results.
C9_TopLevelScoreMirrorsResults ==
  \A id \in ScanIds :
    scans[id].status = "completed" =>
      /\ scans[id].results.overall_score \in ScoreSet
      /\ scans[id].overall_score = scans[id].results.overall_score
      /\ scans[id].letter_grade = scans[id].results.letter_grade

C9_Witness ==
  \E id \in ScanIds :
    /\ scans[id].status = "completed"
    /\ scans[id].overall_score = 42
    /\ scans[id].results.letter_grade = "D"

\* C10 as stated: a URL with no scheme, with a scheme other than http or
\* https, or with a malformed domain is answered with 422, and never with
\* 200 and empty analysis data.
C10_InvalidUrlGets422 ==
  (aStage = "responded" /\ (\/ aUrl.scheme = ""
                            \/ aUrl.scheme \notin {"http", "https"}
                            \/ ~domainMatches(aUrl.domain)))
    => (aHttp = 422 /\ ~(aHttp = 200 /\ aData # "full"))

\* C10 amended: a URL with a scheme other than http or https, or with an
\* empty or malformed domain, is answered with 422; a URL with no scheme is
\* answered as the same URL with https:// in front; no answer is 200 with
\* empty analysis data.
C10_RejectedUrlGets422 ==
  aStage = "responded" =>
    /\ (aUrl.scheme \notin {"", "http", "https"} \/ ~domainMatches(aUrl.domain))
         => aHttp = 422
    /\ (aUrl.scheme = "" /\ domainMatches(aUrl.domain) /\ aUrl.reachable)
         => aHttp # 422
    /\ aHttp = 200 => aData = "full"

C10_Witness ==
  /\ aStage = "responded"
  /\ aUrl.scheme = "https"
  /\ ~domainMatches(aUrl.domain)
  /\ aUrl.reachable
  /\ aHttp = 422

\* C11: when a get_page scope has been left, however its body ended, the
\* page is closed and no longer in _active_pages; and when no caller is
\* inside an operation and no create_page page is outstanding,
\* _active_pages is empty.
C11_ScopeExitReleasesPage ==
  /\ bLast.op = "get_page_exit" =>
       (pageState[bLast.page] = "closed" /\ bLast.page \notin active_pages)
  /\ (Quiet /\ manualOpen = {}) => active_pages = {}

\* C12: when close() has returned, the three handles are unset,
\* _active_pages is empty, and every resource and every tracked page whose
\* own close did not raise is closed, whichever closes raised.
C12_CloseIsIndependent ==
  mstate = "closed" =>
    /\ \A r \in Resources : ~handle[r]
    /\ active_pages = {}
    /\ \A r \in Resources : ResourceErr(r) \notin closeErrors => ~alive[r]
    /\ \A p \in PageIds : pageState[p] = "open" => PageErr(p) \in closeErrors

C12_Witness ==
  /\ mstate = "closed"
  /\ ResourceErr("context") \in closeErrors
  /\ alive["context"]
  /\ ~alive["browser"]
  /\ ~alive["playwright"]
  /\ \E p \in PageIds : PageErr(p) \in closeErrors
  /\ \E p \in PageIds : pageState[p] = "closed"

C14_FailedAcquireChangesNothing ==
  [][(bLast'.op = "get_page" /\ (~handle["context"] \/ bLast'.error # NoError))
       => /\ bLast'.outcome = "raised"
          /\ active_pages' = active_pages
          /\ pageState' = pageState
          /\ tpc' = tpc]_vars

C14_Witness ==
  /\ bLast.op = "get_page"
  /\ bLast.outcome = "raised"
  /\ bLast.error = errorText("new_page failed")
  /\ active_pages # {}

\* C15: analyze_website always returns its analysis: with the error
\* "Invalid URL" recorded for an invalid URL, an error that starts with
\* Timeout: for a timeout; and when it has returned, the page it created
\* is closed and no longer in _active_pages.
C15_AnalyzeWebsiteCleansUp ==
  (bLast.op = "analyze_website" /\ bLast.outcome # "navigating") =>
    /\ bLast.outcome = "returned"
    /\ bLast.page # Null =>
         (pageState[bLast.page] = "closed" /\ bLast.page \notin active_pages)

\* C16: when the analysis of a website yields no data the scan record ends
\* failed with an error recorded, and a record that is completed holds the
\* data of its analysis.
C16_EmptyAnalysisFailsScan ==
  /\ aScan.analysis = "empty" => (aScan.status = "failed" /\ aScan.error # "")
  /\ aScan.status = "completed" => (aScan.analysis = "data" /\ aData = "full")

C16_Witness ==
  /\ aStage = "responded"
  /\ aScan.analysis = "empty"
  /\ aScan.status = "failed"
  /\ aScan.error = "Website analysis returned no data"

\* C17: no duplicate scans: every scan document was created from a visit
\* to the confirmation screen of its own, so there are never more scans
\* than visits, whatever confirm clicks were made while a request was in
\* flight.
C17_OneScanPerVisit == ScanCount <= visits

\* C18: a createScan that fails leaves the screen and scanId as they were
\* (the confirmation screen stays, 'scanning' is not entered) and puts the
\* failure message into scanError; a createScan that succeeds stores the
\* returned scan_id, whose document is pending, and enters 'scanning'.
C18_CreateScanOutcome ==
  [][/\ (createReqs' = createReqs - 1 /\ scans' = scans) =>
          /\ appState' = appState
          /\ scanId' = scanId
          /\ scanError' \in {apiErrorMessage(d, "Failed to create scan") :
                               d \in ErrorDetails}
          /\ scanError' # ""
     /\ (createReqs' = createReqs - 1 /\ scans' # scans) =>
          /\ appState' = "scanning"
          /\ scanId' = ScanCount'
          /\ scans[scanId'].status = "none"
          /\ scans'[scanId'].status = "pending"
          /\ scanError' = scanError]_vars

C18_Witness ==
  /\ appState = "confirmation"
  /\ createReqs = 0
  /\ ~isCreatingScan
  /\ scanError = "Internal server error"
  /\ scanId = Null

\* C19: the app shows 'website-analyzing' exactly while an analyzeWebsite
\* request is in flight.
C19_AnalyzingExactlyWhileInFlight ==
  (appState = "website-analyzing") <=> (analyzeReqs > 0)

\* C20: progress is one of 0, 10, 50, 100; once the mounted ScanProgress
\* has processed a response, and for every response it can process next,
\* progress is 10 for pending, 50 for in_progress, 100 for completed and 0
\* for failed.
C20_ProgressFollowsStatus ==
  LET expected(st) == IF st = "pending" THEN 10
                      ELSE IF st = "in_progress" THEN 50
                      ELSE IF st = "completed" THEN 100
                      ELSE 0
  IN /\ progress \in {0, 10, 50, 100}
     /\ (mountedInst # Null /\ currentScan # NoBody) =>
          (status = currentScan.status /\ progress = expected(status))
     /\ \A m \in BagToSet(getReqs) : \A st \in Snapshots(m) :
          m.inst = mountedInst =>
            pollScanOk([World EXCEPT !.getReqs = @ (-) SetToBag({m})],
                       [scan |-> m.scan, inst |-> m.inst,
                        body |-> [status |-> st,
                                  overall_score |->
                                    scans[m.scan].overall_score]]).progress
              = expected(st)

C20_Witness ==
  /\ mountedInst # Null
  /\ currentScan.status = "in_progress"
  /\ progress = 50
  /\ \E m \in BagToSet(getReqs) :
       m.inst = mountedInst /\ "completed" \in Snapshots(m)

\* C21: close() releases in the order pages, context, browser, automation
\* engine: a handle is given up only when the tracked pages have been dealt
\* with and every handle earlier in the order has been given up, and the
\* pages are dealt with before the close of any handle has been attempted.
C21_CloseOrder ==
  [][LET Earlier(r) == CASE r = "context" -> {}
                         [] r = "browser" -> {"context"}
                         [] OTHER -> {"context", "browser"}
     IN /\ \A r \in Resources :
             (handle[r] /\ ~handle'[r]) =>
               (active_pages = {} /\ \A e \in Earlier(r) : ~handle[e])
        /\ bLast'.op = "close.pages" =>
             /\ \A r \in Resources : handle[r] = alive[r]
             /\ handle' = handle
             /\ \A r \in Resources : ResourceErr(r) \notin closeErrors]_vars

C21_Witness ==
  /\ mstate = "closing_browser"
  /\ warned
  /\ ~handle["context"]
  /\ handle["browser"]
  /\ handle["playwright"]

\* C22: a call of the api client returns only the parsed body of an OK
\* response; for a non-OK response it throws, with the server's detail
\* text when the error body is a JSON object carrying one and with the
\* default message of the call otherwise.
C22_ApiCallContract ==
  apiOut # NoOutcome =>
    /\ apiOut.kind \in {"returned", "thrown"}
    /\ apiOut.kind = "returned" =>
         (apiResp.arrived /\ apiResp.ok /\ apiOut.body = apiResp.body)
    /\ (apiResp.arrived /\ ~apiResp.ok) =>
         /\ apiOut.kind = "thrown"
         /\ apiOut.message =
              IF /\ apiResp.body.kind = "object"
                 /\ apiResp.body.detail.type = "string"
                 /\ apiResp.body.detail.text # ""
              THEN apiResp.body.detail.text
              ELSE defaultMessage(apiOp)

\* C23: for every score from 0 to 100 the count-up timer of ScoreCircle
\* stops within steps + 1 ticks with the score shown; until then the number
\* shown never exceeds the score, and it never decreases.
C23_CountUpEndsAtScore ==
  /\ [](score # NoScore =>
          /\ displayScore >= 0
          /\ displayScore <= score
          /\ timer => ticks <= steps
          /\ (~timer) => (displayScore = score /\ ticks >= 1))
  /\ [][(score # NoScore /\ score' = score) =>
          displayScore' >= displayScore]_vars

C23_Witness ==
  /\ score = 68
  /\ ~timer
  /\ ticks = steps + 1
  /\ displayScore = 68

\* C24: a submit of the restaurant form calls onSearch exactly when name
\* and city both have a character that is not a blank, with both values
\* stripped of the blanks at their ends; a submit of the website form
\* calls onQuickWebsiteCheck exactly when the URL has such a character,
\* with the stripped URL; otherwise the submit calls nothing.
C24_SubmitPassesTrimmed ==
  LET blank(str) == \A i \in 1..Len(str) : str[i] = " "
      stripped(t, str) ==
        \E i \in 1..Len(str) : \E j \in i..Len(str) :
          /\ t = SubSeq(str, i, j)
          /\ str[i] # " " /\ str[j] # " "
          /\ \A k \in 1..Len(str) : (k < i \/ k > j) => str[k] = " "
  IN /\ fLast.form = "restaurant" =>
          IF blank(name) \/ blank(city)
          THEN fLast.called = "none"
          ELSE /\ fLast.called = "onSearch"
               /\ Len(fLast.args) = 2
               /\ stripped(fLast.args[1], name)
               /\ stripped(fLast.args[2], city)
     /\ fLast.form = "website" =>
          IF blank(websiteUrl)
          THEN fLast.called = "none"
          ELSE /\ fLast.called = "onQuickWebsiteCheck"
               /\ Len(fLast.args) = 1
               /\ stripped(fLast.args[1], websiteUrl)
     /\ fLast.called = "onSearch" => fLast.form = "restaurant"
     /\ fLast.called = "onQuickWebsiteCheck" => fLast.form = "website"

C24_Witness ==
  /\ fLast.called = "onSearch"
  /\ name = <<" ", "a", " ">>
  /\ city = <<"a", " ", "a">>
  /\ fLast.args = << <<"a">>, <<"a", " ", "a">> >>

\* C25: whenever the app is in 'scanning', scanId is set, it is the id of
\* a scan that createScan created, and ScanProgress is rendered.
C25_ScanningHasScanId ==
  appState = "scanning" =>
    /\ scanId # Null
    /\ scanId \in ScanIds
    /\ scans[scanId].status # "none"
    /\ mountedInst # Null

C25_Witness ==
  /\ appState = "scanning"
  /\ scanId = 2
  /\ mountedInst # Null
  /\ createReqs = 0

\* C26: whenever the app is in 'website-results', websiteResults is set
\* (to a response of the analysis), so the results screen is rendered.
C26_WebsiteResultsHasResults ==
  appState = "website-results" =>
    (websiteResults # NoWebsiteResults /\ websiteResults \in WebsiteResponses)

C26_Witness ==
  /\ appState = "website-results"
  /\ websiteResults.website_score = 42
  /\ analyzeReqs = 0
  /\ visits = 1

\* C27: from the landing screen no step takes the app to 'scanning': an
\* answer to a createScan that was in flight when the user went back
\* leaves the app on 'landing'.
C27_LateAnswerStaysOnLanding ==
  [][appState = "landing" => appState' # "scanning"]_vars

\* C28: the confirmation screen is entered with no error to show: the step
\* that takes the app to 'confirmation' leaves scanError empty.
C28_ConfirmationEnteredWithoutError ==
  [][(appState # "confirmation" /\ appState' = "confirmation") =>
       scanError' = ""]_vars

\* C30: while ScanProgress stays mounted for one scan and shows no
\* terminal status, the status it shows never moves backward and the
\* progress it shows never drops, in whatever order the answers to its
\* getScan requests arrive.
C30_ShownStatusOnlyForward ==
  [][(/\ mountedInst # Null
      /\ mountedInst' = mountedInst
      /\ scanId' = scanId
      /\ ScanCount' = 1
      /\ status \notin Terminal) =>
       /\ StatusRank(status') >= StatusRank(status)
       /\ status' \notin Terminal => progress' >= progress]_vars

\* C29: in a mounted ScanProgress completedSteps is the first currentStep
\* step ids in order, and currentStep is 0 while progress is 10, 2 while
\* progress is 50 and 5 while progress is 100.
C29_StepsFollowProgress ==
  mountedInst # Null =>
    /\ currentStep \in 0..Len(scanSteps)
    /\ completedSteps = SubSeq(scanSteps, 1, currentStep)
    /\ progress = 10 => currentStep = 0
    /\ progress = 50 => currentStep = 2
    /\ progress = 100 => currentStep = 5

====
